---- MODULE Spec2Model ----
(***************************************************************************)
(* Model of the request-rate governor of the Business-Intelligence         *)
(* platform:                                                               *)
(*   - RateLimiter  (src/modules/rate_limiter.py): the sliding-window      *)
(*     admission gate shared by every thread of the process;               *)
(*   - AIService._generate_response (src/modules/ai_service.py): the        *)
(*     retry-with-backoff wrapper around one provider call.                *)
(*                                                                         *)
(* Time is counted in whole clock units.  time.time() is the variable      *)
(* now; it never goes back and may advance between any two steps of any    *)
(* thread.  Where one lock-protected block reads the clock twice the       *)
(* second read may be later than the first.                                *)
(***************************************************************************)
EXTENDS Integers, Sequences, FiniteSets, TLC

(***************************************************************************)
(* Bounds of the model.                                                    *)
(* The program sets requests_per_minute = 25 and window_seconds = 60       *)
(* (rate_limiter.py:36-37).  The gate's code depends on them only through  *)
(* comparisons, so it is checked for a small capacity and a short window,  *)
(* long enough for a full window, its exact boundary and its expiry to be  *)
(* reached.                                                                *)
(***************************************************************************)
requests_per_minute == 2
window_seconds == 2

\* the clock runs until the first full window has expired
MaxTime == window_seconds + 1

\* _generate_response: max_retries and base_delay (seconds)
max_retries == 5
base_delay == 5

Threads == {"t1", "t2"}
NoThread == "nobody"

\* timeout: Optional[float] -- {} is None, {x} is the number x
NoTimeout == {}
Timeouts == {NoTimeout, {0}, {1}}
TimeoutValue(to) == CHOOSE x \in to : TRUE

Min(a, b) == IF a <= b THEN a ELSE b
Max(a, b) == IF a >= b THEN a ELSE b

VARIABLES
    now,            \* time.time()
    request_times,  \* RateLimiter.request_times (deque, oldest first)
    lock,           \* RateLimiter.lock: the thread holding it, or NoThread
    pc,             \* position of each thread in the gate's code
    op,             \* the public operation each thread is running
    timeout,        \* acquire's timeout argument
    start_time,     \* acquire's start_time
    wait_time,      \* acquire's wait_time / get_wait_time's return value
    elapsed,        \* acquire's elapsed
    sleep_until,    \* the instant the running time.sleep() ends
    acquired,       \* acquire's return value
    usage,          \* get_current_usage's return value
    \* history of the running call, read by the properties only
    snap,           \* request_times when the call started
    instant,        \* the clock has not advanced since the call started
    looped,         \* acquire has started a second loop iteration
    slept,          \* acquire has called time.sleep
    sleep_len,      \* the length of acquire's latest sleep
    appended,       \* the call has appended a timestamp
    foreign,        \* another thread has changed request_times during the call
    \* the class RateLimiter
    _instance,      \* RateLimiter._instance: NoInstance is None, else the object's number
    _initialized,   \* _initialized of the instance
    rebuilt,        \* history: RateLimiter() was called again on a gate holding timestamps
    \* AIService and the callers of _generate_response
    configured,     \* AIService.configured of each caller's instance
    credential,     \* history: the instance was built with an API key present
    epc,            \* position of each caller in AIService's code
    attempt,        \* _generate_response's loop variable
    wake_at,        \* the instant the running backoff sleep ends
    error_str,      \* _generate_response's error_str: the text of the caught exception
    outcome,        \* what _generate_response returned or raised
    calls,          \* history: model.generate_content calls of the running request
    sleeps,         \* history: the delays the running request has slept, in order
    provider_calls  \* history: the times of the latest provider calls

gateVars == <<request_times, lock, pc, op, timeout, start_time, wait_time,
              elapsed, sleep_until, acquired, usage, snap, instant,
              looped, slept, sleep_len, appended, foreign>>

classVars == <<_instance, _initialized, rebuilt>>

execVars == <<configured, credential, epc, attempt, wake_at, error_str, outcome, calls, sleeps,
              provider_calls>>

NoUsage == [requests_in_window |-> 0, limit |-> 0, available |-> 0,
            window_seconds |-> 0]

----------------------------------------------------------------------------
(* RateLimiter helpers *)

RECURSIVE DropExpired(_, _)
\* while self.request_times and self.request_times[0] < cutoff_time: popleft()
DropExpired(rt, cutoff) ==
    IF rt # <<>> /\ Head(rt) < cutoff
    THEN DropExpired(Tail(rt), cutoff)
    ELSE rt

\* a prune that removes nothing
_clean_nothing(rt, current_time) == rt

\* a prune that empties the deque
_clean_everything(rt, current_time) == <<>>

\* the prune with the window not subtracted from the cutoff
_clean_without_window(rt, current_time) ==
    DropExpired(rt, current_time)

\* _clean_old_requests, with current_time the clock value it reads
_clean_old_requests(rt, current_time) ==
    DropExpired(rt, current_time - window_seconds)

\* get_wait_time: len(self.request_times) < self.requests_per_minute
HasFreeSlot(rt) == Len(rt) < requests_per_minute

\* acquire without the second check
DoubleCheckSkipped(rt) == TRUE

\* acquire's double-check under the lock:
\* len(self.request_times) < self.requests_per_minute
DoubleCheck(rt) == Len(rt) < requests_per_minute

\* the wait without the floor
WaitForNoFloor(rt, t) == (Head(rt) + window_seconds) - t

\* (oldest_request + self.window_seconds) - time.time(), floored at 0
WaitFor(rt, t) == Max(0, (Head(rt) + window_seconds) - t)

\* a timeout that is never found to have run out
TimedOutNever(el, wt, to) == FALSE

\* the timeout test with >= for >
TimedOutInclusive(el, wt, to) == el + wt >= TimeoutValue(to)

\* elapsed + wait_time > timeout
TimedOut(el, wt, to) == el + wt > TimeoutValue(to)

\* min(wait_time, 1.0)
SleepSlice(wt) == Min(wt, 1)

\* a with block entered whoever holds the lock
LockFreeAlways == TRUE

\* with self.lock: the block is entered when no thread holds the lock
LockFree == lock = NoThread

\* a block left with the lock still held
LockKeptAfterBlock(t) == t

\* the end of a with self.lock block releases the lock
LockAfterBlock(t) == NoThread

\* the timestamp taken from the clock read when acquire was called
AdmissionStampOfStart(t, t2) == start_time[t]

\* line 90: self.request_times.append(time.time()), t2 the clock read there
AdmissionStamp(t, t2) == t2

\* the dictionary with the used slots not subtracted
UsageOfNoSubtract(rt) ==
    [requests_in_window |-> Len(rt),
     limit |-> requests_per_minute,
     available |-> requests_per_minute,
     window_seconds |-> window_seconds]

\* the dictionary get_current_usage builds
UsageOf(rt) ==
    [requests_in_window |-> Len(rt),
     limit |-> requests_per_minute,
     available |-> requests_per_minute - Len(rt),
     window_seconds |-> window_seconds]

\* the clock values a second time.time() of the same block can return
LaterReads == now..Min(now + 1, MaxTime)

\* the clock goes to n: a running call learns when it has advanced
ClockSeen(n) ==
    [u \in Threads |-> IF pc[u] = "idle" THEN instant[u] ELSE instant[u] /\ n = now]

\* thread t appends: every other thread that is inside a call is told
Disturb(t) ==
    [u \in Threads |-> IF u # t /\ pc[u] # "idle" THEN TRUE ELSE foreign[u]]

----------------------------------------------------------------------------
(* AIService: text of errors, as sequences of characters *)

\* callers, each with its own AIService instance (every page module builds one)
Callers == {"c1", "c2"}

UpperCase == <<"A", "B", "C", "D", "E", "F", "G", "H", "I", "J", "K", "L", "M",
               "N", "O", "P", "Q", "R", "S", "T", "U", "V", "W", "X", "Y", "Z">>
LowerCase == <<"a", "b", "c", "d", "e", "f", "g", "h", "i", "j", "k", "l", "m",
               "n", "o", "p", "q", "r", "s", "t", "u", "v", "w", "x", "y", "z">>

LowerChar(c) ==
    IF \E i \in DOMAIN UpperCase : UpperCase[i] = c
    THEN LowerCase[CHOOSE i \in DOMAIN UpperCase : UpperCase[i] = c]
    ELSE c

\* str.lower()
Lower(str) == [i \in DOMAIN str |-> LowerChar(str[i])]

\* sub in str
Contains(str, sub) ==
    \E i \in 1..(Len(str) - Len(sub) + 1) :
        SubSeq(str, i, i + Len(sub) - 1) = sub

\* the texts the provider's exceptions carry in this model
ErrInvalid == <<"i", "n", "v", "a", "l", "i", "d", " ", "r", "e", "q", "u", "e", "s", "t">>
ErrHttp429 == <<"H", "T", "T", "P", " ", "4", "2", "9">>
ErrQuota == <<"Q", "u", "o", "t", "a", " ", "e", "x", "c", "e", "e", "d", "e", "d">>
ErrRateLimit == <<"r", "a", "t", "e", " ", "l", "i", "m", "i", "t", " ", "e", "x", "c", "e", "e", "d", "e", "d">>
ErrExhausted == <<"R", "E", "S", "O", "U", "R", "C", "E", " ", "E", "X", "H", "A", "U", "S", "T", "E", "D">>
ErrTooMany == <<"T", "o", "o", " ", "M", "a", "n", "y", " ", "R", "e", "q", "u", "e", "s", "t", "s">>
ErrRateHyphen == <<"r", "a", "t", "e", "-", "l", "i", "m", "i", "t", " ", "h", "i", "t">>
ErrTimeout == <<"t", "i", "m", "e", "d", " ", "o", "u", "t">>

ErrorTexts == {ErrInvalid, ErrHttp429, ErrQuota, ErrRateLimit, ErrExhausted, ErrTooMany, ErrRateHyphen, ErrTimeout}

\* the texts a successful call returns
ResponseTexts == {"text A", "text B"}

Sig429 == <<"4", "2", "9">>
SigQuota == <<"q", "u", "o", "t", "a">>
SigRateLimit == <<"r", "a", "t", "e", " ", "l", "i", "m", "i", "t">>
SigExhausted == <<"r", "e", "s", "o", "u", "r", "c", "e", " ", "e", "x", "h", "a", "u", "s", "t", "e", "d">>
SigTooMany == <<"t", "o", "o", " ", "m", "a", "n", "y", " ", "r", "e", "q", "u", "e", "s", "t", "s">>

SigRate == <<"r", "a", "t", "e">>

\* the classification with "rate" for "rate limit"
is_quota_error_loose(err) ==
    LET error_lower == Lower(err) IN
    \/ Contains(err, Sig429)
    \/ Contains(error_lower, SigQuota)
    \/ Contains(error_lower, SigRate)
    \/ Contains(error_lower, SigExhausted)
    \/ Contains(error_lower, SigTooMany)

\* the classification comparing the text as it is, without lower()
is_quota_error_cased(err) ==
    \/ Contains(err, Sig429)
    \/ Contains(err, SigQuota)
    \/ Contains(err, SigRateLimit)
    \/ Contains(err, SigExhausted)
    \/ Contains(err, SigTooMany)

\* lines 73-80: is_quota_error
is_quota_error(err) ==
    LET error_lower == Lower(err) IN
    \/ Contains(err, Sig429)
    \/ Contains(error_lower, SigQuota)
    \/ Contains(error_lower, SigRateLimit)
    \/ Contains(error_lower, SigExhausted)
    \/ Contains(error_lower, SigTooMany)

----------------------------------------------------------------------------
(* The state after the module is imported: rate_limiter = RateLimiter() *)

GateInit ==
    /\ now = 0
    /\ request_times = <<>>
    /\ lock = NoThread
    /\ pc = [t \in Threads |-> "idle"]
    /\ op = [t \in Threads |-> "none"]
    /\ timeout = [t \in Threads |-> NoTimeout]
    /\ start_time = [t \in Threads |-> 0]
    /\ wait_time = [t \in Threads |-> 0]
    /\ elapsed = [t \in Threads |-> 0]
    /\ sleep_until = [t \in Threads |-> 0]
    /\ acquired = [t \in Threads |-> FALSE]
    /\ usage = [t \in Threads |-> NoUsage]
    /\ snap = [t \in Threads |-> <<>>]
    /\ instant = [t \in Threads |-> TRUE]
    /\ looped = [t \in Threads |-> FALSE]
    /\ slept = [t \in Threads |-> FALSE]
    /\ sleep_len = [t \in Threads |-> 0]
    /\ appended = [t \in Threads |-> FALSE]
    /\ foreign = [t \in Threads |-> FALSE]
    /\ _instance = 1
    /\ _initialized = TRUE
    /\ rebuilt = FALSE

\* the clock advances
Tick ==
    /\ now < MaxTime
    /\ now' = now + 1
    /\ instant' = ClockSeen(now')
    /\ UNCHANGED <<request_times, lock, pc, op, timeout, start_time, wait_time,
                   elapsed, sleep_until, acquired, usage, snap, looped, slept,
                   sleep_len, appended, foreign, classVars, execVars>>

\* time.time() goes on for ever: once now has reached MaxTime every time
\* is counted from one unit later instead (the gate compares differences of
\* times only); a time that is then older than now - MaxTime stays at 0,
\* which is older than the window and than every timeout
Shift(x) == Max(0, x - 1)

TickOn ==
    /\ IF now < MaxTime
       THEN /\ now' = now + 1
            /\ UNCHANGED <<request_times, start_time, sleep_until, snap>>
       ELSE /\ now' = now
            /\ request_times' = [i \in DOMAIN request_times |-> Shift(request_times[i])]
            /\ start_time' = [t \in Threads |-> Shift(start_time[t])]
            /\ sleep_until' = [t \in Threads |-> Shift(sleep_until[t])]
            /\ snap' = [t \in Threads |->
                          [i \in DOMAIN snap[t] |-> Shift(snap[t][i])]]
    /\ instant' = ClockSeen(now + 1)
    /\ UNCHANGED <<lock, pc, op, timeout, wait_time, elapsed, acquired, usage,
                   looped, slept, sleep_len, appended, foreign, classVars,
                   execVars>>

\* what every call sets when it starts
BeginCall(t, name) ==
    /\ op' = [op EXCEPT ![t] = name]
    /\ snap' = [snap EXCEPT ![t] = request_times]
    /\ instant' = [instant EXCEPT ![t] = TRUE]
    /\ looped' = [looped EXCEPT ![t] = FALSE]
    /\ slept' = [slept EXCEPT ![t] = FALSE]
    /\ sleep_len' = [sleep_len EXCEPT ![t] = 0]
    /\ appended' = [appended EXCEPT ![t] = FALSE]
    /\ foreign' = [foreign EXCEPT ![t] = FALSE]

----------------------------------------------------------------------------
(* RateLimiter.get_wait_time *)

\* a caller other than acquire enters get_wait_time: with self.lock
get_wait_time_call(t) ==
    /\ UNCHANGED <<classVars, execVars>>
    /\ pc[t] = "idle"
    /\ LockFree
    /\ lock' = t
    /\ pc' = [pc EXCEPT ![t] = "gw_body"]
    /\ BeginCall(t, "get_wait_time")
    /\ UNCHANGED <<now, request_times, timeout, start_time, wait_time, elapsed,
                   sleep_until, acquired, usage>>

\* acquire's call of get_wait_time takes the lock
gw_enter(t) ==
    /\ UNCHANGED <<classVars, execVars>>
    /\ pc[t] = "gw_lock"
    /\ LockFree
    /\ lock' = t
    /\ pc' = [pc EXCEPT ![t] = "gw_body"]
    /\ UNCHANGED <<now, request_times, op, timeout, start_time, wait_time,
                   elapsed, sleep_until, acquired, usage, snap, instant,
                   looped, slept, sleep_len, appended, foreign>>

\* where get_wait_time's caller goes on: acquire tests wait_time == 0
AfterWait(t, wt) ==
    IF op[t] = "acquire"
    THEN (IF wt = 0 THEN "dc_lock" ELSE "timeout_check")
    ELSE "gw_done"

\* the body of get_wait_time, lines 59-67, and the release of the lock
gw_body(t) ==
    /\ UNCHANGED <<classVars, execVars>>
    /\ pc[t] = "gw_body"
    /\ lock = t
    /\ LET cleaned == _clean_old_requests(request_times, now) IN
        /\ request_times' = cleaned
        /\ IF HasFreeSlot(cleaned)
           THEN /\ wait_time' = [wait_time EXCEPT ![t] = 0]
                /\ now' = now
           ELSE \E t2 \in LaterReads :
                /\ wait_time' = [wait_time EXCEPT ![t] = WaitFor(cleaned, t2)]
                /\ now' = t2
    /\ instant' = ClockSeen(now')
    /\ pc' = [pc EXCEPT ![t] = AfterWait(t, wait_time'[t])]
    /\ lock' = LockAfterBlock(t)
    /\ UNCHANGED <<op, timeout, start_time, elapsed, sleep_until, acquired,
                   usage, snap, looped, slept, sleep_len, appended, foreign>>

----------------------------------------------------------------------------
(* RateLimiter.acquire *)

\* acquire(timeout): start_time = time.time(), then the loop
acquire_call(t, to) ==
    /\ UNCHANGED <<classVars, execVars>>
    /\ pc[t] = "idle"
    /\ timeout' = [timeout EXCEPT ![t] = to]
    /\ start_time' = [start_time EXCEPT ![t] = now]
    /\ pc' = [pc EXCEPT ![t] = "gw_lock"]
    /\ BeginCall(t, "acquire")
    /\ UNCHANGED <<now, request_times, lock, wait_time, elapsed, sleep_until,
                   acquired, usage>>

\* wait_time == 0: with self.lock
dc_enter(t) ==
    /\ UNCHANGED <<classVars, execVars>>
    /\ pc[t] = "dc_lock"
    /\ LockFree
    /\ lock' = t
    /\ pc' = [pc EXCEPT ![t] = "dc_body"]
    /\ UNCHANGED <<now, request_times, op, timeout, start_time, wait_time,
                   elapsed, sleep_until, acquired, usage, snap, instant,
                   looped, slept, sleep_len, appended, foreign>>

\* the append not followed by the return
AfterAppendFallsThrough == "timeout_check"

\* line 91: return True ends the call
AfterAppend == "acq_done"

\* lines 88-91: prune, check again, append time.time() and return True
dc_body(t) ==
    /\ UNCHANGED <<classVars, execVars>>
    /\ pc[t] = "dc_body"
    /\ lock = t
    /\ LET cleaned == _clean_old_requests(request_times, now) IN
        IF DoubleCheck(cleaned)
        THEN \E t2 \in LaterReads :
             /\ request_times' = Append(cleaned, AdmissionStamp(t, t2))
             /\ now' = t2
             /\ acquired' = [acquired EXCEPT ![t] = TRUE]
             /\ appended' = [appended EXCEPT ![t] = TRUE]
             /\ foreign' = Disturb(t)
             /\ pc' = [pc EXCEPT ![t] = AfterAppend]
        ELSE /\ request_times' = cleaned
             /\ now' = now
             /\ pc' = [pc EXCEPT ![t] = "timeout_check"]
             /\ UNCHANGED <<acquired, appended, foreign>>
    /\ instant' = ClockSeen(now')
    /\ lock' = LockAfterBlock(t)
    /\ UNCHANGED <<op, timeout, start_time, wait_time, elapsed, sleep_until,
                   usage, snap, looped, slept, sleep_len>>

\* lines 94-97: if timeout is not None: elapsed = ...; return False
timeout_check(t) ==
    /\ UNCHANGED <<classVars, execVars>>
    /\ pc[t] = "timeout_check"
    /\ IF timeout[t] # NoTimeout
       THEN /\ elapsed' = [elapsed EXCEPT ![t] = now - start_time[t]]
            /\ IF TimedOut(elapsed'[t], wait_time[t], timeout[t])
               THEN /\ acquired' = [acquired EXCEPT ![t] = FALSE]
                    /\ pc' = [pc EXCEPT ![t] = "acq_done"]
               ELSE /\ pc' = [pc EXCEPT ![t] = "sleep_check"]
                    /\ UNCHANGED acquired
       ELSE /\ pc' = [pc EXCEPT ![t] = "sleep_check"]
            /\ UNCHANGED <<elapsed, acquired>>
    /\ UNCHANGED <<now, request_times, lock, op, timeout, start_time,
                   wait_time, sleep_until, usage, snap, instant, looped, slept,
                   sleep_len, appended, foreign>>

\* the loop starts again: wait_time and elapsed are assigned before they are
\* read again, so the values of the finished iteration are dropped
NextIteration(t) ==
    /\ pc' = [pc EXCEPT ![t] = "gw_lock"]
    /\ looped' = [looped EXCEPT ![t] = TRUE]
    /\ wait_time' = [wait_time EXCEPT ![t] = 0]
    /\ elapsed' = [elapsed EXCEPT ![t] = 0]
    /\ sleep_until' = [sleep_until EXCEPT ![t] = 0]
    /\ sleep_len' = [sleep_len EXCEPT ![t] = 0]

\* lines 100-101: if wait_time > 0: time.sleep(min(wait_time, 1.0))
sleep_check(t) ==
    /\ UNCHANGED <<classVars, execVars>>
    /\ pc[t] = "sleep_check"
    /\ IF wait_time[t] > 0
       THEN /\ sleep_until' = [sleep_until EXCEPT ![t] = now + SleepSlice(wait_time[t])]
            /\ sleep_len' = [sleep_len EXCEPT ![t] = SleepSlice(wait_time[t])]
            /\ slept' = [slept EXCEPT ![t] = TRUE]
            /\ pc' = [pc EXCEPT ![t] = "sleeping"]
            /\ UNCHANGED <<looped, wait_time, elapsed>>
       ELSE /\ NextIteration(t)
            /\ UNCHANGED slept
    /\ UNCHANGED <<now, request_times, lock, op, timeout, start_time,
                   acquired, usage, snap, instant, appended, foreign>>

\* time.sleep returns once its time has passed; the loop starts again
wake(t) ==
    /\ UNCHANGED <<classVars, execVars>>
    /\ pc[t] = "sleeping"
    /\ now >= sleep_until[t]
    /\ NextIteration(t)
    /\ UNCHANGED <<now, request_times, lock, op, timeout, start_time,
                   acquired, usage, snap, instant, slept, appended,
                   foreign>>

----------------------------------------------------------------------------
(* RateLimiter.get_current_usage *)

\* with self.lock
get_current_usage_call(t) ==
    /\ UNCHANGED <<classVars, execVars>>
    /\ pc[t] = "idle"
    /\ LockFree
    /\ lock' = t
    /\ pc' = [pc EXCEPT ![t] = "cu_body"]
    /\ BeginCall(t, "get_current_usage")
    /\ UNCHANGED <<now, request_times, timeout, start_time, wait_time, elapsed,
                   sleep_until, acquired, usage>>

\* lines 106-112: prune and build the dictionary
cu_body(t) ==
    /\ UNCHANGED <<classVars, execVars>>
    /\ pc[t] = "cu_body"
    /\ lock = t
    /\ LET cleaned == _clean_old_requests(request_times, now) IN
        /\ request_times' = cleaned
        /\ usage' = [usage EXCEPT ![t] = UsageOf(cleaned)]
    /\ UNCHANGED instant
    /\ pc' = [pc EXCEPT ![t] = "cu_done"]
    /\ lock' = LockAfterBlock(t)
    /\ UNCHANGED <<now, op, timeout, start_time, wait_time, elapsed,
                   sleep_until, acquired, snap, looped, slept, sleep_len,
                   appended, foreign>>

----------------------------------------------------------------------------
\* the caller takes the returned value; the thread is free for its next call
Return(t) ==
    /\ UNCHANGED <<classVars, execVars>>
    /\ pc[t] \in {"acq_done", "gw_done", "cu_done"}
    /\ pc' = [pc EXCEPT ![t] = "idle"]
    /\ op' = [op EXCEPT ![t] = "none"]
    /\ timeout' = [timeout EXCEPT ![t] = NoTimeout]
    /\ start_time' = [start_time EXCEPT ![t] = 0]
    /\ wait_time' = [wait_time EXCEPT ![t] = 0]
    /\ elapsed' = [elapsed EXCEPT ![t] = 0]
    /\ sleep_until' = [sleep_until EXCEPT ![t] = 0]
    /\ acquired' = [acquired EXCEPT ![t] = FALSE]
    /\ usage' = [usage EXCEPT ![t] = NoUsage]
    /\ snap' = [snap EXCEPT ![t] = <<>>]
    /\ instant' = [instant EXCEPT ![t] = TRUE]
    /\ looped' = [looped EXCEPT ![t] = FALSE]
    /\ slept' = [slept EXCEPT ![t] = FALSE]
    /\ sleep_len' = [sleep_len EXCEPT ![t] = 0]
    /\ appended' = [appended EXCEPT ![t] = FALSE]
    /\ foreign' = [foreign EXCEPT ![t] = FALSE]
    /\ UNCHANGED <<now, request_times, lock>>

----------------------------------------------------------------------------
(* RateLimiter() called again after the import *)

NoInstance == 0

\* __init__ run again whatever _initialized says
InitializedIgnored == FALSE

\* __init__, line 31: if self._initialized: return
AlreadyInitialized == _instance # NoInstance /\ _initialized

\* RateLimiter(): __new__ makes an object only when _instance is None, and
\* __init__ sets the fields only of an object not yet initialised
RateLimiter_construct(t) ==
    /\ UNCHANGED execVars
    /\ pc[t] = "idle"
    /\ _instance' = IF _instance = NoInstance THEN 1 ELSE _instance
    /\ IF AlreadyInitialized
       THEN UNCHANGED <<request_times, lock>>
       ELSE /\ request_times' = <<>>
            /\ lock' = NoThread
    /\ _initialized' = TRUE
    /\ rebuilt' = (rebuilt \/ request_times # <<>>)
    /\ UNCHANGED <<now, pc, op, timeout, start_time, wait_time, elapsed,
                   sleep_until, acquired, usage, snap, instant, looped, slept,
                   sleep_len, appended, foreign>>

GateStep(t) ==
    \/ \E to \in Timeouts : acquire_call(t, to)
    \/ gw_enter(t)
    \/ gw_body(t)
    \/ dc_enter(t)
    \/ dc_body(t)
    \/ timeout_check(t)
    \/ sleep_check(t)
    \/ wake(t)
    \/ get_wait_time_call(t)
    \/ get_current_usage_call(t)
    \/ cu_body(t)
    \/ Return(t)

----------------------------------------------------------------------------
(* AIService *)

RECURSIVE Pow2(_)
Pow2(n) == IF n = 0 THEN 1 ELSE 2 * Pow2(n - 1)

\* a progression that starts at twice base_delay
BackoffDelayFromTwice(att) == base_delay * Pow2(att + 1)

\* a delay that grows by base_delay with every attempt
BackoffDelayLinear(att) == base_delay * (att + 1)

\* delay = base_delay * (2 ** attempt)
BackoffDelay(att) == base_delay * Pow2(att)

\* the retries given up one attempt early
MayRetryOneFewer(att) == att < max_retries - 2

\* a quota failure always followed by a sleep
MayRetryAlways(att) == TRUE

\* a sleep after the last attempt as well
MayRetryThroughLast(att) == att < max_retries

\* attempt < max_retries - 1
MayRetry(att) == att < max_retries - 1

MsgNotConfigured == "AI service not configured. Please add your Google API key in Settings."
MsgQuota == "API quota exceeded after {max_retries} retries. Original error: {error_str}. Please wait a few minutes before trying again, or upgrade to a paid plan"
MsgOther == "Generation failed: {error_str}"
MsgGiveUp == "Generation failed after multiple retries"

\* the result of _generate_response: the text returned, or the exception
\* raised (its message, with the values the message is formatted with)
NoOutcome == [status |-> "none", text |-> "", retries |-> 0, error |-> <<>>]

\* a return that loses the text of the response
ReturnedNoText(txt) == [status |-> "returned", text |-> "", retries |-> 0, error |-> <<>>]

Returned(txt) == [status |-> "returned", text |-> txt, retries |-> 0, error |-> <<>>]
Raised(msg, n, e) == [status |-> "raised", text |-> msg, retries |-> n, error |-> e]

\* a public operation whose except clause reports success with no text
OperationResultSwallowed(out) ==
    IF out.status = "returned"
    THEN [success |-> TRUE, response |-> out.text]
    ELSE [success |-> TRUE, response |-> ""]

\* the dict a public operation (analyze_requirements ... chat) returns: its
\* try returns the text of _generate_response under the success flag, its
\* except returns str(e); the not-configured return of its first lines
\* carries the same message as the exception of _generate_response
OperationResult(out) ==
    IF out.status = "returned"
    THEN [success |-> TRUE, response |-> out.text]
    ELSE [error |-> out.text]

\* the provider calls still inside the window that ends at t, and the call at t
RecordCall(log, t) ==
    LET kept == SelectSeq(log, LAMBDA x : t - x < window_seconds)
        all == Append(kept, t)
    IN  IF Len(all) > requests_per_minute + 1 THEN Tail(all) ELSE all

\* the precondition left out
is_configured_always(c) == TRUE

\* a flag set whenever the client calls did not raise
InitConfiguredAnyway(api_key, init_ok) == init_ok

\* _initialize_client: self.configured ends True iff api_key is truthy and
\* genai.configure / GenerativeModel do not raise
InitConfigured(api_key, init_ok) == api_key /\ init_ok

\* a loop that goes on from the attempts the other caller's request has made
LoopStartShared(c) == calls[CHOOSE d \in Callers : d # c]

\* for attempt in range(max_retries): the first value of the local attempt
LoopStart(c) == 0

\* AIService.is_configured
is_configured(c) == configured[c]

ExecInit ==
    /\ configured = [c \in Callers |-> FALSE]
    /\ credential = [c \in Callers |-> FALSE]
    /\ epc = [c \in Callers |-> "new"]
    /\ attempt = [c \in Callers |-> 0]
    /\ wake_at = [c \in Callers |-> 0]
    /\ error_str = [c \in Callers |-> <<>>]
    /\ outcome = [c \in Callers |-> NoOutcome]
    /\ calls = [c \in Callers |-> 0]
    /\ sleeps = [c \in Callers |-> <<>>]
    /\ provider_calls = <<>>

\* AIService.__init__ and _initialize_client: api_key says whether a
\* credential is found, init_ok whether genai.configure / GenerativeModel
\* return without raising
AIService_init(c, api_key, init_ok) ==
    /\ UNCHANGED <<gateVars, classVars>>
    /\ epc[c] = "new"
    /\ configured' = [configured EXCEPT ![c] = InitConfigured(api_key, init_ok)]
    /\ credential' = [credential EXCEPT ![c] = api_key]
    /\ epc' = [epc EXCEPT ![c] = "ready"]
    /\ UNCHANGED <<now, attempt, wake_at, error_str, outcome, calls, sleeps,
                   provider_calls>>

\* _generate_response, lines 57-65: the precondition and the loop's entry
generate_call(c) ==
    /\ UNCHANGED <<gateVars, classVars>>
    /\ epc[c] = "ready"
    /\ now <= MaxTime
    /\ IF ~is_configured(c)
       THEN /\ outcome' = [outcome EXCEPT ![c] = Raised(MsgNotConfigured, 0, <<>>)]
            /\ epc' = [epc EXCEPT ![c] = "done"]
       ELSE /\ outcome' = [outcome EXCEPT ![c] = NoOutcome]
            /\ epc' = [epc EXCEPT ![c] = "attempt"]
    /\ attempt' = [attempt EXCEPT ![c] = LoopStart(c)]
    /\ calls' = [calls EXCEPT ![c] = 0]
    /\ sleeps' = [sleeps EXCEPT ![c] = <<>>]
    /\ UNCHANGED <<now, configured, credential, wake_at, error_str, provider_calls>>

\* lines 67-68: the provider call succeeds
attempt_ok(c, txt) ==
    /\ UNCHANGED <<gateVars, classVars>>
    /\ epc[c] = "attempt"
    /\ calls' = [calls EXCEPT ![c] = calls[c] + 1]
    /\ provider_calls' = RecordCall(provider_calls, now)
    /\ outcome' = [outcome EXCEPT ![c] = Returned(txt)]
    /\ epc' = [epc EXCEPT ![c] = "done"]
    /\ UNCHANGED <<now, configured, credential, attempt, wake_at, error_str, sleeps>>

\* lines 67-98: the provider call raises an exception with text e
attempt_fail(c, e) ==
    /\ UNCHANGED <<gateVars, classVars>>
    /\ epc[c] = "attempt"
    /\ calls' = [calls EXCEPT ![c] = calls[c] + 1]
    /\ provider_calls' = RecordCall(provider_calls, now)
    /\ error_str' = [error_str EXCEPT ![c] = e]
    /\ IF is_quota_error(e)
       THEN IF MayRetry(attempt[c])
            THEN /\ wake_at' = [wake_at EXCEPT ![c] = now + BackoffDelay(attempt[c])]
                 /\ sleeps' = [sleeps EXCEPT ![c] = Append(sleeps[c], BackoffDelay(attempt[c]))]
                 /\ epc' = [epc EXCEPT ![c] = "backoff"]
                 /\ UNCHANGED outcome
            ELSE /\ outcome' = [outcome EXCEPT ![c] = Raised(MsgQuota, max_retries, e)]
                 /\ epc' = [epc EXCEPT ![c] = "done"]
                 /\ UNCHANGED <<wake_at, sleeps>>
       ELSE /\ outcome' = [outcome EXCEPT ![c] = Raised(MsgOther, 0, e)]
            /\ epc' = [epc EXCEPT ![c] = "done"]
            /\ UNCHANGED <<wake_at, sleeps>>
    /\ UNCHANGED <<now, configured, credential, attempt>>

\* time.sleep(delay) returns, not before its time has passed; continue: the
\* for loop takes its next value, or ends and line 100 raises
backoff_end(c) ==
    /\ UNCHANGED <<gateVars, classVars>>
    /\ epc[c] = "backoff"
    /\ now' = Max(now, wake_at[c])
    /\ attempt' = [attempt EXCEPT ![c] = attempt[c] + 1]
    /\ wake_at' = [wake_at EXCEPT ![c] = 0]
    /\ error_str' = [error_str EXCEPT ![c] = <<>>]
    /\ IF attempt[c] + 1 < max_retries
       THEN /\ epc' = [epc EXCEPT ![c] = "attempt"]
            /\ UNCHANGED outcome
       ELSE /\ outcome' = [outcome EXCEPT ![c] = Raised(MsgGiveUp, 0, <<>>)]
            /\ epc' = [epc EXCEPT ![c] = "done"]
    /\ UNCHANGED <<configured, credential, calls, sleeps, provider_calls>>

\* the caller takes the result; the instance serves its next request
generate_return(c) ==
    /\ UNCHANGED <<gateVars, classVars>>
    /\ epc[c] = "done"
    /\ epc' = [epc EXCEPT ![c] = "ready"]
    /\ outcome' = [outcome EXCEPT ![c] = NoOutcome]
    /\ attempt' = [attempt EXCEPT ![c] = 0]
    /\ calls' = [calls EXCEPT ![c] = 0]
    /\ sleeps' = [sleeps EXCEPT ![c] = <<>>]
    /\ error_str' = [error_str EXCEPT ![c] = <<>>]
    /\ UNCHANGED <<now, configured, credential, wake_at, provider_calls>>

ExecStep(c) ==
    \/ \E api_key, init_ok \in BOOLEAN : AIService_init(c, api_key, init_ok)
    \/ generate_call(c)
    \/ \E txt \in ResponseTexts : attempt_ok(c, txt)
    \/ \E e \in ErrorTexts : attempt_fail(c, e)
    \/ backoff_end(c)
    \/ generate_return(c)

vars == <<now, gateVars, classVars, execVars>>

Init == GateInit /\ ExecInit

Next ==
    \/ Tick
    \/ \E t \in Threads : GateStep(t)

\* any number of threads use the gate in any interleaving
Spec == Init /\ [][Next]_vars

\* one thread uses the gate while RateLimiter() is called again and again
NextSingleton ==
    \/ Tick
    \/ GateStep("t1")
    \/ \E t \in Threads : RateLimiter_construct(t)

SpecSingleton == Init /\ [][NextSingleton]_vars

\* one thread alone uses the gate, the clock going on for ever
NextSolo ==
    \/ TickOn
    \/ GateStep("t1")

\* the clock keeps advancing and the thread keeps running
SpecSoloFair ==
    /\ Init /\ [][NextSolo]_vars
    /\ WF_vars(TickOn)
    /\ WF_vars(GateStep("t1"))

\* the steps of a running acquire
AcquireStep(t) ==
    \/ gw_enter(t)
    \/ gw_body(t)
    \/ dc_enter(t)
    \/ dc_body(t)
    \/ timeout_check(t)
    \/ sleep_check(t)
    \/ wake(t)
    \/ Return(t)

\* a thread other than those of Threads runs get_wait_time's or
\* get_current_usage's block, or the block of an acquire that is refused,
\* from its start to its end while the lock is free
other_prunes ==
    /\ UNCHANGED <<classVars, execVars>>
    /\ LockFree
    /\ request_times' = _clean_old_requests(request_times, now)
    /\ UNCHANGED <<now, lock, pc, op, timeout, start_time, wait_time, elapsed,
                   sleep_until, acquired, usage, snap, instant, looped, slept,
                   sleep_len, appended, foreign>>

\* such a thread runs acquire's block and is admitted
other_admits ==
    /\ UNCHANGED <<classVars, execVars>>
    /\ LockFree
    /\ LET cleaned == _clean_old_requests(request_times, now) IN
        /\ DoubleCheck(cleaned)
        /\ request_times' = Append(cleaned, now)
    /\ foreign' = Disturb(NoThread)
    /\ UNCHANGED <<now, lock, pc, op, timeout, start_time, wait_time, elapsed,
                   sleep_until, acquired, usage, snap, instant, looped, slept,
                   sleep_len, appended>>

\* thread t1 calls acquire with a timeout while other threads prune and
\* take slots at any moment, the clock going on for ever
NextContend ==
    \/ TickOn
    \/ \E to \in Timeouts \ {NoTimeout} : acquire_call("t1", to)
    \/ AcquireStep("t1")
    \/ other_prunes
    \/ other_admits

\* the clock keeps advancing and thread t1 keeps running; nothing is
\* required of the other threads
SpecContendFair ==
    /\ Init /\ [][NextContend]_vars
    /\ WF_vars(TickOn)
    /\ WF_vars(AcquireStep("t1"))

NextExec ==
    \/ Tick
    \/ \E c \in Callers : ExecStep(c)

\* the callers of the AI service, each running _generate_response
SpecExec == Init /\ [][NextExec]_vars

\* every provider call returns or raises, and every time.sleep returns
ExecFairness ==
    \A c \in Callers :
        /\ WF_vars(\/ \E txt \in ResponseTexts : attempt_ok(c, txt)
                   \/ \E e \in ErrorTexts : attempt_fail(c, e))
        /\ WF_vars(backoff_end(c))

SpecExecFair == SpecExec /\ ExecFairness

----------------------------------------------------------------------------
(* Properties *)

\* the number of timestamps of rt whose age at time t is less than the window
InWindow(rt, t) == Cardinality({i \in DOMAIN rt : t - rt[i] < window_seconds})

\* rt is what is left of old after entries were removed from its oldest end
IsSuffix(rt, old) ==
    /\ Len(rt) <= Len(old)
    /\ rt = SubSeq(old, Len(old) - Len(rt) + 1, Len(old))

\* the gate was full of timestamps of one instant when the call of t started
FullOfOneInstant(t) ==
    /\ Len(snap[t]) = requests_per_minute
    /\ \A i \in DOMAIN snap[t] : snap[t][i] = snap[t][1]

\* the texts of ErrorTexts that carry no quota signal
NoSignalTexts == {ErrInvalid, ErrRateHyphen, ErrTimeout}

\* the texts of ErrorTexts that hold "429" or, in any case of letters, one
\* of "quota", "rate limit", "resource exhausted", "too many requests"
QuotaSignalTexts == {ErrHttp429, ErrQuota, ErrRateLimit, ErrExhausted, ErrTooMany}

\* C1: under any interleaving of acquire, get_wait_time and
\* get_current_usage the gate never holds more than requests_per_minute
\* timestamps whose age is less than window_seconds.
C1_NeverOverAdmitted ==
    InWindow(request_times, now) <= requests_per_minute

\* C1, its case: a thread saw free capacity (wait_time 0), another thread
\* took the last slot before it, and its check under the lock refused it.
C1_RaceLost ==
    \E t \in Threads :
        /\ pc[t] = "timeout_check"
        /\ wait_time[t] = 0
        /\ foreign[t]
        /\ ~appended[t]
        /\ InWindow(request_times, now) = requests_per_minute

\* C2: the provider calls made through _generate_response within any
\* trailing window of window_seconds never exceed the gate's capacity.
C2_ProviderCallsWithinCapacity ==
    InWindow(provider_calls, now) <= requests_per_minute

\* C3: for one thread at one instant, with no other thread admitted in
\* between, get_wait_time returned 0 iff acquire returned True without
\* sleeping and without a second loop iteration.
C3_WaitZeroIffAdmittedAtOnce ==
    \A t \in Threads :
        ( /\ op[t] = "acquire"
          /\ pc[t] \in {"timeout_check", "sleep_check", "sleeping", "acq_done"}
          /\ ~looped[t]
          /\ instant[t]
          /\ ~foreign[t] )
        => ( wait_time[t] = 0
             <=> (pc[t] = "acq_done" /\ acquired[t] /\ ~slept[t]) )

\* C4: when the gate was filled at one instant t0, acquire(timeout=0) at an
\* instant t with t0 <= t < t0 + window_seconds returns False, and at any
\* time after t0 + window_seconds it returns True (no other admission in
\* between).
C4_FullWindowProbe ==
    \A t \in Threads :
        ( /\ pc[t] = "acq_done"
          /\ timeout[t] = {0}
          /\ FullOfOneInstant(t)
          /\ ~foreign[t] )
        => /\ (instant[t] /\ start_time[t] < snap[t][1] + window_seconds)
                => ~acquired[t]
           /\ (start_time[t] > snap[t][1] + window_seconds) => acquired[t]

\* C4, its case: a probe issued after the full window has expired is admitted.
C4_ProbeAfterExpiry ==
    \E t \in Threads :
        /\ pc[t] = "acq_done"
        /\ timeout[t] = {0}
        /\ FullOfOneInstant(t)
        /\ ~foreign[t]
        /\ start_time[t] > snap[t][1] + window_seconds
        /\ acquired[t]

\* C5: acquire(timeout=0) is a single probe: it never sleeps and never
\* starts a second loop iteration.
C5_ProbeNeverRepeats ==
    \A t \in Threads :
        (op[t] = "acquire" /\ timeout[t] = {0}) => (~looped[t] /\ ~slept[t])

\* C6: a call of acquire that returned False appended no timestamp; without
\* another thread's admission request_times is what it was when the call
\* started, less entries removed from the oldest end, each of them expired;
\* in any case every entry of then that has not expired is still held.
C6_TimedOutNotCounted ==
    \A t \in Threads :
        (pc[t] = "acq_done" /\ ~acquired[t]) =>
            /\ ~appended[t]
            /\ \A v \in 0..MaxTime :
                   (now - v <= window_seconds) =>
                       Cardinality({i \in DOMAIN request_times : request_times[i] = v})
                         >= Cardinality({i \in DOMAIN snap[t] : snap[t][i] = v})
            /\ ~foreign[t] =>
                   /\ IsSuffix(request_times, snap[t])
                   /\ \A i \in 1..(Len(snap[t]) - Len(request_times)) :
                          now - snap[t][i] > window_seconds

\* C6, its case: an acquire on a gate that held timestamps has timed out.
C6_TimedOut ==
    \E t \in Threads :
        /\ pc[t] = "acq_done"
        /\ ~acquired[t]
        /\ ~foreign[t]
        /\ snap[t] # <<>>
        /\ wait_time[t] > 0

\* C7, the part about the loop: acquire returns False exactly when it was not
\* admitted in the iteration and elapsed + wait_time exceeds the timeout,
\* and then without sleeping; otherwise, with wait_time > 0, it sleeps for
\* min(wait_time, 1).
C7_Loop ==
    \A t \in Threads :
        /\ (pc[t] = "acq_done" /\ ~acquired[t]) =>
               /\ timeout[t] # NoTimeout
               /\ ~appended[t]
               /\ elapsed[t] + wait_time[t] > TimeoutValue(timeout[t])
               /\ sleep_len[t] = 0
        /\ (pc[t] \in {"sleep_check", "sleeping"} /\ timeout[t] # NoTimeout) =>
               elapsed[t] + wait_time[t] <= TimeoutValue(timeout[t])
        /\ pc[t] = "sleeping" =>
               /\ wait_time[t] > 0
               /\ sleep_len[t] = Min(wait_time[t], 1)

\* C7 as claimed: the loop as above, and no sleep started by acquire ends
\* later than start_time + timeout.
C7_SleepEndsByDeadline ==
    /\ C7_Loop
    /\ \A t \in Threads :
           (pc[t] = "sleeping" /\ timeout[t] # NoTimeout) =>
               sleep_until[t] <= start_time[t] + TimeoutValue(timeout[t])

\* C7 as amended: the loop as above, and every sleep started by acquire is
\* no longer than what was left of the timeout when the iteration's timeout
\* check read the clock: elapsed + min(wait_time, 1) <= timeout.
C7_SleepFitsCheckedRemainder ==
    /\ C7_Loop
    /\ \A t \in Threads :
           (pc[t] = "sleeping" /\ timeout[t] # NoTimeout) =>
               elapsed[t] + sleep_len[t] <= TimeoutValue(timeout[t])

\* C7, its case: acquire with a timeout sleeps through all that was left of
\* the timeout at its check.
C7_SleepsToDeadline ==
    \E t \in Threads :
        /\ pc[t] = "sleeping"
        /\ timeout[t] # NoTimeout
        /\ elapsed[t] + sleep_len[t] = TimeoutValue(timeout[t])

\* C8: get_current_usage reports limit = requests_per_minute, the window
\* length, available = limit - used with 0 <= available <= limit, and used =
\* the number of timestamps left by the prune (those not older than the
\* window).
C8_UsageReport ==
    \A t \in Threads :
        pc[t] = "cu_done" =>
            LET u == usage[t] IN
            /\ u.limit = requests_per_minute
            /\ u.window_seconds = window_seconds
            /\ u.requests_in_window + u.available = u.limit
            /\ 0 <= u.available /\ u.available <= u.limit
            /\ (instant[t] /\ ~foreign[t]) =>
                   /\ u.requests_in_window = Len(request_times)
                   /\ u.requests_in_window =
                        Cardinality({i \in DOMAIN snap[t] :
                                        now - snap[t][i] <= window_seconds})

\* C8, its case: the report follows a prune that removed a timestamp and
\* left one.
C8_ReportAfterPrune ==
    \E t \in Threads :
        /\ pc[t] = "cu_done"
        /\ instant[t]
        /\ ~foreign[t]
        /\ usage[t].requests_in_window > 0
        /\ usage[t].requests_in_window < Len(snap[t])

\* C9: an instance that is not configured fails every request with the
\* not-configured error, with no provider call and no sleep, and never
\* enters the retry loop.
C9_NotConfiguredFailsFast ==
    \A c \in Callers :
        /\ (~configured[c] /\ epc[c] \notin {"new", "ready"}) =>
               /\ epc[c] = "done"
               /\ outcome[c] = Raised(MsgNotConfigured, 0, <<>>)
        /\ (outcome[c].status = "raised" /\ outcome[c].text = MsgNotConfigured) =>
               /\ ~configured[c]
               /\ calls[c] = 0
               /\ sleeps[c] = <<>>
               /\ attempt[c] = 0

\* C9, its case: a request to an instance built without a credential failed.
C9_FailedNotConfigured ==
    \E c \in Callers :
        /\ epc[c] = "done"
        /\ ~configured[c]
        /\ outcome[c].text = MsgNotConfigured

\* C10: an attempt, the first or a later one, that failed with a text
\* without a quota signal ended the request at once with the
\* "Generation failed" error wrapping that text: no sleep after it, no
\* further call.
C10_OtherErrorFailsAtOnce ==
    \A c \in Callers :
        /\ error_str[c] \in NoSignalTexts =>
               /\ epc[c] = "done"
               /\ outcome[c] = Raised(MsgOther, 0, error_str[c])
               /\ calls[c] = attempt[c] + 1
               /\ Len(sleeps[c]) = attempt[c]
        /\ (outcome[c].status = "raised" /\ outcome[c].text = MsgOther) =>
               /\ outcome[c].error = error_str[c]
               /\ epc[c] = "done"

\* C10, its case: a later attempt, after a backoff, failed with such a text.
C10_LaterAttemptFailedOther ==
    \E c \in Callers :
        /\ epc[c] = "done"
        /\ attempt[c] > 0
        /\ error_str[c] \in NoSignalTexts
        /\ outcome[c].text = MsgOther

\* C11: when every attempt fails with a quota signal, the provider is called
\* exactly max_retries times, there are exactly max_retries - 1 sleeps (none
\* after the last failure), and the request ends with the quota-exceeded
\* error that carries max_retries and the text of the last attempt's error.
C11_AllQuotaFailures ==
    \A c \in Callers :
        /\ (calls[c] = max_retries /\ error_str[c] \in QuotaSignalTexts) =>
               /\ epc[c] = "done"
               /\ outcome[c].status = "raised"
               /\ outcome[c].text = MsgQuota
               /\ Len(sleeps[c]) = max_retries - 1
        /\ (outcome[c].status = "raised" /\ outcome[c].text = MsgQuota) =>
               /\ calls[c] = max_retries
               /\ Len(sleeps[c]) = max_retries - 1
               /\ outcome[c].retries = max_retries
               /\ outcome[c].error = error_str[c]
               /\ error_str[c] \in QuotaSignalTexts

\* C11, its case: a request whose five attempts all failed with a quota
\* signal has ended.
C11_QuotaExhausted ==
    \E c \in Callers :
        /\ epc[c] = "done"
        /\ outcome[c].text = MsgQuota
        /\ Len(sleeps[c]) = max_retries - 1

\* C12: the sleep after the k-th consecutive quota failure lasts
\* base_delay * 2^(k-1): the sleeps of one request are a prefix of
\* 5, 10, 20, 40, each the double of the one before.
C12_BackoffProgression ==
    \A c \in Callers :
        /\ Len(sleeps[c]) <= 4
        /\ \A k \in DOMAIN sleeps[c] :
               /\ sleeps[c][k] = <<5, 10, 20, 40>>[k]
               /\ k = 1 => sleeps[c][k] = base_delay
               /\ k > 1 => /\ sleeps[c][k] = 2 * sleeps[c][k - 1]
                           /\ sleeps[c][k] > sleeps[c][k - 1]
        /\ epc[c] = "backoff" => Len(sleeps[c]) = attempt[c] + 1

\* C12, its case: a request has slept four times.
C12_FourBackoffs ==
    \E c \in Callers : sleeps[c] = <<5, 10, 20, 40>>

\* C13: a request whose k first attempts (0 <= k < max_retries) failed with
\* a quota signal and whose next attempt succeeded returns that attempt's
\* text after exactly k + 1 provider calls and exactly k sleeps; with k = 0
\* there is no sleep.
C13_SuccessAfterQuotaFailures ==
    \A c \in Callers :
        outcome[c].status = "returned" =>
            /\ epc[c] = "done"
            /\ outcome[c].text \in ResponseTexts
            /\ attempt[c] < max_retries
            /\ calls[c] = attempt[c] + 1
            /\ Len(sleeps[c]) = attempt[c]
            /\ calls[c] = 1 => sleeps[c] = <<>>

\* C13, its case: the third attempt succeeded after two quota failures.
C13_SucceededOnThirdAttempt ==
    \E c \in Callers :
        /\ epc[c] = "done"
        /\ outcome[c].status = "returned"
        /\ calls[c] = 3
        /\ Len(sleeps[c]) = 2

\* the calls of one request never exceed max_retries, and a request that is
\* about to call or is sleeping has calls left
C14_CallsBounded ==
    \A c \in Callers :
        /\ calls[c] <= max_retries
        /\ epc[c] = "attempt" => (calls[c] = attempt[c] /\ calls[c] < max_retries)
        /\ epc[c] = "backoff" => calls[c] < max_retries

\* C14: one request calls the provider at most max_retries times, a sleep is
\* always followed by another attempt, and, every call and every sleep
\* returning, the request ends with a text or an error.
C14_NoUnboundedRetry ==
    /\ []C14_CallsBounded
    /\ \A c \in Callers :
           (epc[c] \in {"attempt", "backoff"}) ~> (epc[c] = "done")

\* C14, its case: a request ended by the success of its last allowed attempt.
C14_LastAttemptUsed ==
    \E c \in Callers :
        /\ epc[c] = "done"
        /\ calls[c] = max_retries
        /\ outcome[c].status = "returned"

\* C15: an error is a quota error iff its text holds "429" or, in any case
\* of letters, one of the four phrases; the text alone picks the branch: a
\* quota error is followed by the backoff or, the retries used up, by the
\* quota-exceeded error, any other error by the "Generation failed" error.
C15_ClassifiedByTextAlone ==
    /\ \A e \in ErrorTexts : is_quota_error(e) <=> e \in QuotaSignalTexts
    /\ \A c \in Callers :
           error_str[c] # <<>> =>
               /\ error_str[c] \in QuotaSignalTexts <=>
                      \/ epc[c] = "backoff"
                      \/ (epc[c] = "done" /\ outcome[c].text = MsgQuota)
               /\ error_str[c] \notin QuotaSignalTexts <=>
                      (epc[c] = "done" /\ outcome[c].text = MsgOther)

\* C15, its case: an error whose signal is in capital letters is retried.
C15_UpperCaseSignalRetried ==
    \E c \in Callers :
        /\ epc[c] = "backoff"
        /\ error_str[c] = ErrExhausted

\* C16: every request ends with the text of a successful call or with
\* exactly one of the three classified errors (not configured, quota
\* exceeded, other), and the dict the public operation returns for it holds
\* either the success flag with the text or the error message, never both
\* and never neither.
C16_NoErrorSwallowed ==
    \A c \in Callers :
        epc[c] = "done" =>
            LET r == OperationResult(outcome[c]) IN
            /\ outcome[c].status \in {"returned", "raised"}
            /\ outcome[c].status = "raised" =>
                   /\ outcome[c].text \in {MsgNotConfigured, MsgQuota, MsgOther}
                   /\ outcome[c].text = MsgNotConfigured <=> ~configured[c]
                   /\ outcome[c].text # MsgNotConfigured =>
                          /\ outcome[c].error = error_str[c]
                          /\ error_str[c] \in ErrorTexts
                   /\ DOMAIN r = {"error"}
                   /\ r.error = outcome[c].text
            /\ outcome[c].status = "returned" =>
                   /\ error_str[c] = <<>>
                   /\ DOMAIN r = {"success", "response"}
                   /\ r.success
                   /\ r.response = outcome[c].text
                   /\ r.response \in ResponseTexts
            /\ ("success" \in DOMAIN r) # ("error" \in DOMAIN r)

\* C16, its case: a request that had slept ended with the other-error
\* failure, and its operation returns the error alone.
C16_ErrorAfterRetryReported ==
    \E c \in Callers :
        /\ epc[c] = "done"
        /\ sleeps[c] # <<>>
        /\ outcome[c].status = "raised"
        /\ outcome[c].text = MsgOther
        /\ DOMAIN OperationResult(outcome[c]) = {"error"}

\* the threads that are inside a with self.lock block
InBlock == {t \in Threads : pc[t] \in {"gw_body", "dc_body", "cu_body"}}

\* C17: request_times is read and changed only by the thread that holds the
\* lock: a thread is inside a with self.lock block exactly when it holds the
\* lock, at most one thread is, and every step that changes request_times
\* is taken by the holder, who releases the lock with it.
C17_OnlyUnderTheLock ==
    /\ [](/\ lock \in Threads \cup {NoThread}
          /\ \A t \in Threads : t \in InBlock <=> lock = t
          /\ Cardinality(InBlock) <= 1)
    /\ [][request_times' # request_times =>
              /\ lock \in InBlock
              /\ pc'[lock] \notin {"gw_body", "dc_body", "cu_body"}
              /\ lock' = NoThread]_vars

\* C17, its case: a thread is in acquire's block while the other thread
\* waits for the lock.
C17_OtherThreadWaits ==
    \E t, u \in Threads :
        /\ t # u
        /\ lock = t
        /\ pc[t] = "dc_body"
        /\ pc[u] \in {"gw_lock", "dc_lock"}

\* C18: once a call has pruned, with the clock where it was, every timestamp
\* held is younger than window_seconds: now - ts < window_seconds.
C18_PrunedStrictlyInsideWindow ==
    \A t \in Threads :
        ( /\ pc[t] \in {"dc_lock", "timeout_check", "sleep_check", "acq_done",
                        "gw_done", "cu_done"}
          /\ instant[t] )
        => \A i \in DOMAIN request_times :
               now - request_times[i] < window_seconds

\* C19: request_times is in ascending order in every state.
C19_SortedAscending ==
    \A i, j \in DOMAIN request_times :
        i < j => request_times[i] <= request_times[j]

\* C19, its case: two threads were admitted at different times, the second
\* after a prune took the oldest entry away.
C19_TwoStampsAfterPrune ==
    /\ Len(request_times) = 2
    /\ request_times[1] < request_times[2]
    /\ request_times[1] > 0
    /\ \E t \in Threads : pc[t] = "acq_done" /\ acquired[t] /\ foreign[t]

\* C20: get_wait_time returns 0 when the prune leaves fewer than
\* requests_per_minute timestamps and otherwise oldest + window_seconds -
\* now, floored at 0; what it returns is within 0..window_seconds.
C20_WaitTimeValue ==
    \A t \in Threads :
        /\ wait_time[t] \in 0..window_seconds
        /\ (pc[t] = "gw_done" /\ instant[t]) =>
               LET kept == SelectSeq(snap[t], LAMBDA x : now - x <= window_seconds)
               IN  wait_time[t] = IF Len(kept) < requests_per_minute
                                  THEN 0
                                  ELSE Max(0, kept[1] + window_seconds - now)

\* C20, its case: get_wait_time found the gate full, its oldest timestamp
\* part of the way through the window, and returned what is left of it.
C20_WaitOnFullGate ==
    \E t \in Threads :
        /\ pc[t] = "gw_done"
        /\ instant[t]
        /\ Len(snap[t]) = requests_per_minute
        /\ wait_time[t] > 0
        /\ wait_time[t] < window_seconds

\* the steps the position of one request may take
ExecuteSteps ==
    {<<"new", "ready">>, <<"ready", "attempt">>, <<"ready", "done">>,
     <<"attempt", "done">>, <<"attempt", "backoff">>, <<"backoff", "attempt">>,
     <<"done", "ready">>}

\* C23: a request goes NotStarted (ready) -> Attempting (attempt) ->
\* Succeeded or Failed (done) or RetryScheduled (backoff) -> Attempting; a
\* sleep is taken only on entering backoff, directly after a quota failure
\* with attempts left, and backoff is left only for another attempt; no
\* sleep is pending outside backoff, none precedes the first attempt, and
\* the outcome of an ended request does not change.
C23_StateMachine ==
    /\ [](\A c \in Callers :
            /\ epc[c] # "backoff" => wake_at[c] = 0
            /\ (epc[c] = "attempt" /\ calls[c] = 0) => sleeps[c] = <<>>
            /\ epc[c] = "done" <=> outcome[c].status # "none")
    /\ [][\A c \in Callers :
            /\ epc'[c] # epc[c] => <<epc[c], epc'[c]>> \in ExecuteSteps
            /\ (epc[c] = "ready" /\ epc'[c] = "done") =>
                   outcome'[c].text = MsgNotConfigured
            /\ (sleeps'[c] # sleeps[c] /\ sleeps'[c] # <<>>) =>
                   /\ epc[c] = "attempt" /\ epc'[c] = "backoff"
                   /\ Len(sleeps'[c]) = Len(sleeps[c]) + 1
                   /\ error_str'[c] \in QuotaSignalTexts
                   /\ calls'[c] < max_retries
            /\ (epc[c] = "attempt" /\ epc'[c] = "backoff") =>
                   Len(sleeps'[c]) = Len(sleeps[c]) + 1
            /\ (epc[c] = "done" /\ epc'[c] = "done") =>
                   outcome'[c] = outcome[c]]_vars

\* C23, its case: a request is back in Attempting after RetryScheduled.
C23_AttemptingAgain ==
    \E c \in Callers :
        /\ epc[c] = "attempt"
        /\ attempt[c] = 2
        /\ Len(sleeps[c]) = 2

\* C24: every request starts with attempt 0, no call made and no sleep
\* taken, its first backoff is base_delay and it may call max_retries
\* times, whatever the other caller's request is doing; no step of a
\* request changes configured or any variable of the gate.
C24_RequestsIndependent ==
    /\ [](\A c \in Callers :
            /\ sleeps[c] # <<>> => sleeps[c][1] = base_delay
            /\ (epc[c] = "attempt" /\ calls[c] < max_retries - 1) =>
                   MayRetry(attempt[c]))
    /\ [][\A c \in Callers :
            /\ (epc[c] = "ready" /\ epc'[c] = "attempt") =>
                   /\ attempt'[c] = 0
                   /\ calls'[c] = 0
                   /\ sleeps'[c] = <<>>
            /\ (epc[c] # "new" /\ epc'[c] # epc[c]) =>
                   /\ configured' = configured
                   /\ gateVars' = gateVars]_vars

\* C24, its case: a request starts while the other caller's request is in
\* its third backoff.
C24_StartsBesideRetrying ==
    \E c, d \in Callers :
        /\ c # d
        /\ epc[c] = "attempt"
        /\ calls[c] = 0
        /\ epc[d] = "backoff"
        /\ Len(sleeps[d]) = 3

\* the flag is set at construction only, and an ended request failed as
\* not configured exactly when the flag is not set
C29_FlagFixed ==
    /\ [](\A c \in Callers :
            /\ configured[c] => credential[c]
            /\ epc[c] = "new" => ~configured[c]
            /\ epc[c] = "done" =>
                   (outcome[c].text = MsgNotConfigured <=> ~configured[c]))
    /\ [][\A c \in Callers :
            epc[c] # "new" => /\ configured'[c] = configured[c]
                              /\ credential'[c] = credential[c]]_vars

\* C29 as claimed: the flag is fixed at construction, an instance built
\* without a credential fails every request as not configured, and an
\* instance built with a credential never does.
C29_WithCredentialNeverUnconfigured ==
    \A c \in Callers :
        epc[c] = "done" =>
            /\ ~credential[c] => outcome[c].text = MsgNotConfigured
            /\ credential[c] => outcome[c].text # MsgNotConfigured

\* C29 as amended: the flag is fixed at construction, true only if a
\* credential was present; an instance whose flag is not set (no
\* credential, or a client initialisation that failed) fails every request
\* as not configured, and an instance whose flag is set never does.
C29_FlagDecidesNotConfigured ==
    /\ C29_FlagFixed
    /\ [](\A c \in Callers :
            (epc[c] = "done" /\ ~credential[c]) =>
                outcome[c].text = MsgNotConfigured)

\* C29, its case: an instance built with a credential whose client
\* initialisation failed has refused a request as not configured.
C29_CredentialButInitFailed ==
    \E c \in Callers :
        /\ epc[c] = "done"
        /\ credential[c]
        /\ ~configured[c]
        /\ outcome[c].text = MsgNotConfigured

RECURSIVE SeqSum(_)
\* the sum of a sequence of numbers
SeqSum(q) == IF q = <<>> THEN 0 ELSE Head(q) + SeqSum(Tail(q))

\* C30 as claimed: the sleeps of one request add up to at most
\* base_delay * (2^(max_retries-1) - 1) = 75, and to 75 exactly when every
\* attempt failed with a quota error.
C30_TotalIs75IffAllFailed ==
    \A c \in Callers :
        /\ SeqSum(sleeps[c]) <= 75
        /\ epc[c] = "done" =>
               (SeqSum(sleeps[c]) = 75 <=> outcome[c].text = MsgQuota)

\* C30 as amended: the sleeps of one request add up to at most
\* base_delay * (2^(max_retries-1) - 1) = 75, and to 75 exactly when its
\* first max_retries - 1 attempts failed with a quota error, whatever the
\* last attempt does.
C30_TotalBackoffBound ==
    \A c \in Callers :
        /\ SeqSum(sleeps[c]) <= 75
        /\ SeqSum(sleeps[c]) <= base_delay * (Pow2(max_retries - 1) - 1)
        /\ SeqSum(sleeps[c]) = 75 <=> Len(sleeps[c]) = max_retries - 1
        /\ epc[c] = "done" =>
               (SeqSum(sleeps[c]) = 75 <=> calls[c] = max_retries)
        /\ outcome[c].text = MsgQuota => SeqSum(sleeps[c]) = 75

\* C30, its case: a request slept 75 seconds in all and its last attempt
\* succeeded.
C30_SleptAllThenSucceeded ==
    \E c \in Callers :
        /\ epc[c] = "done"
        /\ SeqSum(sleeps[c]) = 75
        /\ outcome[c].status = "returned"

\* C21: a step of get_wait_time's or get_current_usage's block appends
\* nothing and removes only timestamps older than the window, from the
\* oldest end: the timestamps not older than the window, which an acquire at
\* the same instant decides on, are the same before and after it.
C21_ReadOnlyButPrune ==
    [][\A t \in Threads :
          (pc[t] \in {"gw_body", "cu_body"} /\ pc'[t] # pc[t]) =>
              /\ IsSuffix(request_times', request_times)
              /\ \A i \in 1..(Len(request_times) - Len(request_times')) :
                     now - request_times[i] > window_seconds
              /\ SelectSeq(request_times', LAMBDA x : now - x <= window_seconds)
                   = SelectSeq(request_times, LAMBDA x : now - x <= window_seconds)
              /\ SelectSeq(request_times', LAMBDA x : now - x < window_seconds)
                   = SelectSeq(request_times, LAMBDA x : now - x < window_seconds)
              /\ appended'[t] = appended[t]
              /\ acquired'[t] = acquired[t]]_vars

\* C21, its case: get_wait_time has pruned an expired timestamp and left
\* one that is inside the window.
C21_WaitTimePruned ==
    \E t \in Threads :
        /\ pc[t] = "gw_done"
        /\ ~foreign[t]
        /\ request_times # <<>>
        /\ Len(request_times) < Len(snap[t])

\* C25: a call acquire(timeout=T) that was not admitted in its first loop
\* iteration and returned True was admitted no later than start_time + T
\* (the timestamp it appended is the newest one as long as no other thread
\* has appended since).
C25_AdmittedByDeadline ==
    \A t \in Threads :
        ( /\ pc[t] = "acq_done"
          /\ acquired[t]
          /\ looped[t]
          /\ timeout[t] # NoTimeout
          /\ ~foreign[t]
          /\ request_times # <<>> )
        => request_times[Len(request_times)]
             <= start_time[t] + TimeoutValue(timeout[t])

\* C28: the thread that holds the lock is inside a with self.lock block: it
\* is not sleeping, not waiting for the lock and not between blocks; a
\* thread that waits for the lock waits for another thread, and that
\* thread's next step releases the lock.
C28_NoWaitWhileHolding ==
    \A t \in Threads :
        /\ pc[t] \in {"idle", "gw_lock", "dc_lock", "timeout_check", "sleep_check",
                       "sleeping", "acq_done", "gw_done", "cu_done"} => lock # t
        /\ (pc[t] \in {"gw_lock", "dc_lock"} /\ lock # NoThread) =>
               /\ lock \in Threads \ {t}
               /\ pc[lock] \in {"gw_body", "dc_body", "cu_body"}

\* C28, its case: a thread sleeps in acquire while the other thread is
\* inside get_current_usage's block.
C28_OtherRunsWhileSleeping ==
    \E t, u \in Threads :
        /\ pc[t] = "sleeping"
        /\ pc[u] = "cu_body"
        /\ lock = u

\* C22: there is one RateLimiter object, initialised once: a RateLimiter()
\* call after the import returns it and leaves request_times, the lock and
\* the class's fields as they are.
C22_Singleton ==
    /\ [](_instance = 1 /\ _initialized)
    /\ [][\A t \in Threads :
            RateLimiter_construct(t) =>
                /\ request_times' = request_times
                /\ lock' = lock
                /\ _instance' = _instance
                /\ _initialized' = _initialized]_vars

\* C22, its case: RateLimiter() was called on a gate holding timestamps,
\* and they are still held.
C22_RebuiltKeepsTimestamps ==
    /\ rebuilt
    /\ Len(request_times) = requests_per_minute

\* C26: a call of acquire with a timeout returns, the clock advancing,
\* whatever the other thread does.
C26_TimedAcquireReturns ==
    (op["t1"] = "acquire" /\ timeout["t1"] # NoTimeout) ~> (pc["t1"] = "acq_done")

\* C26, its case: a call with a timeout has returned False after the other
\* thread took the slot it had seen free.
C26_ReturnedAfterLosingSlot ==
    /\ pc["t1"] = "acq_done"
    /\ timeout["t1"] # NoTimeout
    /\ ~acquired["t1"]
    /\ looped["t1"]
    /\ foreign["t1"]

\* C27: a call of acquire without a timeout by the only thread using the
\* gate returns True, the clock advancing.
C27_SoloAcquireAdmitted ==
    (op["t1"] = "acquire" /\ timeout["t1"] = NoTimeout)
        ~> (pc["t1"] = "acq_done" /\ acquired["t1"])

\* C27, its case: the call found the gate full, slept, and was admitted
\* once the window had drained.
C27_AdmittedAfterDrain ==
    /\ pc["t1"] = "acq_done"
    /\ timeout["t1"] = NoTimeout
    /\ acquired["t1"]
    /\ slept["t1"]
    /\ Len(snap["t1"]) = requests_per_minute

====
